---- MODULE Spec2Model ----
(***************************************************************************)
(* State-machine model of xrecord.py: the capture -> encode pipeline of    *)
(* the __main__ block, the signal-forwarding supervisor                    *)
(* run_with_signal_forwarding, the two poll strategies                     *)
(* ffmpeg_capture_duration and ffmpeg_progress, the timestamp parser       *)
(* extract_ffmpeg_time, the exclusive allocator open_output_file and the   *)
(* renderer print_progress.  The child process (ffmpeg) and the operating  *)
(* system's signal delivery are the environment.                           *)
(*                                                                         *)
(* Python values: None is the empty tuple and a present value v is <<v>>.  *)
(* A timedelta is its number of microseconds.                              *)
(***************************************************************************)
EXTENDS FiniteSets, Integers, Sequences, TLC

\* ---------------------------------------------------------------- bounds
\* Signals delivered to the pipeline process in one behaviour.
MaxSignals == 2
\* Lines one child writes to its diagnostic stream.
MaxLines == 2

\* ------------------------------------------------------- Python values
None == <<>>
Some(v) == <<v>>

\* --------------------------------------------------------- environment
Sigs == {"SIGINT", "SIGTERM"}

\* A line of the diagnostic stream, as the bytes readline() returns.
\* NoMatch is a line the regular expression does not match (also the empty
\* string read at end of file), a matching line "time=HH:MM:SS.CC" is the
\* tuple of its four fields, BadUtf8 is a line that is not valid UTF-8
\* (the byte ff and the line feed).
NoMatch == <<>>
BadUtf8 == <<255>>
TimeLines == {<<0, 0, 0, 0>>, <<0, 0, 1, 0>>, <<0, 0, 2, 50>>}
Lines == TimeLines \cup {NoMatch, BadUtf8}

\* bytes.decode() of lines 87 and 97 raises UnicodeDecodeError on a line
\* that is not valid UTF-8 and returns the text of any other line.
decode_raises(line) == line = BadUtf8

\* Exit statuses a child may end with: clean, error, ffmpeg's exit after
\* a handled SIGTERM, and death by SIGTERM as Popen reports it.
ExitCodes == {0, 1, 255, -15}

\* File names: pattern.format(i) of the numbered pattern is i, the path
\* of a pattern without placeholder is PlainPath.
PlainPath == -1
Patterns == {"plain", "numbered"}

\* ------------------------------------------------------ pure functions
\* datetime.timedelta(hours, minutes, seconds, microseconds)
timedelta(hours, minutes, seconds, microseconds) ==
    ((hours * 60 + minutes) * 60 + seconds) * 1000000 + microseconds

\* extract_ffmpeg_time: the four groups of re_ffmpeg_progress, the last
\* one scaled by 10000 to microseconds; None when the line does not match.
extract_ffmpeg_time(line) ==
    IF line = NoMatch
    THEN None
    ELSE Some(timedelta(line[1], line[2], line[3], line[4] * 10000))

\* Concurrent calls of open_output_file.
MaxAllocators == 2

\* Mutant for C15: the substituted index is off by one.
format_OffByOne(pat, i) == i + 1

\* pattern.format(i), line 160: the name with index i substituted.
format(pat, i) == i

\* Mutant for C14: the file is opened with mode "wb", which succeeds on
\* an existing file.
open_wb(name, fs) == TRUE

\* open(name, "xb"), lines 156 and 160: the exclusive create succeeds
\* exactly when no file of that name exists, in one filesystem step.
open_xb(name, fs) == name \notin fs

\* range(1000) of open_output_file
SlotCount == 1000

\* open_output_file: the name created by open(..., "xb"), or None when
\* FileExistsError is raised.  fs is the set of names that exist.
open_output_file(pattern, fs) ==
    IF pattern = "plain"
    THEN IF PlainPath \in fs THEN None ELSE Some(PlainPath)
    ELSE LET free == {i \in 0 .. (SlotCount - 1) : i \notin fs}
         IN  IF free = {} THEN None
             ELSE Some(CHOOSE i \in free : \A j \in free : i <= j)

\* Mutant for C7: record accepts a clean exit only.
CaptureAccepted_OnlyZero == {0}

\* Mutant for C8: encode accepts what record accepts.
EncodeAccepted_AsCapture == {0, 255}

\* Exit statuses record accepts (line 148) and encode accepts (line 193).
CaptureAccepted == {0, 255}
EncodeAccepted == {0}

\* print_progress(duration, time) raises when the bound duration is None
\* (None has no total_seconds) or zero (division by zero).
print_progress_raises(d) ==
    IF d = None THEN "AttributeError"
    ELSE IF d[1] = 0 THEN "ZeroDivisionError"
    ELSE "None"

\* ---- Python float arithmetic (IEEE 754 binary64) of line 202
\* A natural number of any size is the sequence of its digits to the base
\* Base, the least significant first, without leading zeros; zero is <<>>.
Base == 32768
BaseBits == 15
Pow2(k) == <<1, 2, 4, 8, 16, 32, 64, 128, 256, 512, 1024, 2048, 4096, 8192,
             16384, 32768>>[k + 1]

RECURSIVE FromInt(_)
FromInt(n) == IF n = 0 THEN <<>> ELSE <<n % Base>> \o FromInt(n \div Base)

RECURSIVE ToInt(_)
ToInt(a) == IF a = <<>> THEN 0 ELSE a[1] + Base * ToInt(Tail(a))

RECURSIVE Trim(_)
Trim(a) ==
    IF a = <<>> \/ a[Len(a)] # 0 THEN a ELSE Trim(SubSeq(a, 1, Len(a) - 1))

Rest(a) == IF a = <<>> THEN a ELSE Tail(a)
Low(a) == IF a = <<>> THEN 0 ELSE a[1]
Digit(a, i) == IF i \in 1 .. Len(a) THEN a[i] ELSE 0

RECURSIVE AddC(_, _, _)
AddC(a, b, c) ==
    IF a = <<>> /\ b = <<>>
    THEN IF c = 0 THEN <<>> ELSE <<c>>
    ELSE <<(Low(a) + Low(b) + c) % Base>>
             \o AddC(Rest(a), Rest(b), (Low(a) + Low(b) + c) \div Base)
Add(a, b) == AddC(a, b, 0)

\* a - b - c for a >= b + c, before leading zeros are removed
RECURSIVE SubC(_, _, _)
SubC(a, b, c) ==
    IF a = <<>> THEN <<>>
    ELSE <<(Base + Low(a) - Low(b) - c) % Base>>
             \o SubC(Rest(a), Rest(b), IF Low(a) - Low(b) - c < 0 THEN 1 ELSE 0)
Sub(a, b) == Trim(SubC(a, b, 0))

\* -1, 0, 1 as a < b, a = b, a > b
RECURSIVE CmpFrom(_, _, _)
CmpFrom(a, b, i) ==
    IF i = 0 THEN 0
    ELSE IF a[i] # b[i] THEN (IF a[i] < b[i] THEN -1 ELSE 1)
    ELSE CmpFrom(a, b, i - 1)
Cmp(a, b) ==
    IF Len(a) # Len(b) THEN (IF Len(a) < Len(b) THEN -1 ELSE 1)
    ELSE CmpFrom(a, b, Len(a))

\* a * k + c for 0 <= k <= Base
RECURSIVE MulC(_, _, _)
MulC(a, k, c) ==
    IF a = <<>>
    THEN IF c = 0 THEN <<>> ELSE <<c>>
    ELSE <<(a[1] * k + c) % Base>> \o MulC(Tail(a), k, (a[1] * k + c) \div Base)
Mul(a, k) == IF k = 0 THEN <<>> ELSE MulC(a, k, 0)

\* a * 2^k; a itself when k <= 0
Shl(a, k) ==
    IF a = <<>> \/ k <= 0 THEN a
    ELSE [i \in 1 .. (k \div BaseBits) |-> 0] \o Mul(a, Pow2(k % BaseBits))

\* The number of binary digits of a.
BitLen(a) ==
    IF a = <<>> THEN 0
    ELSE BaseBits * (Len(a) - 1)
         + Cardinality({k \in 0 .. (BaseBits - 1) : Pow2(k) <= a[Len(a)]})

\* The next digit of the quotient in the long division by q, whose leading
\* digit is at least Base / 2: the estimate from the two leading digits of
\* the running remainder u is at most 2 too large.
Estimate(u, q) ==
    IF (Digit(u, Len(q) + 1) * Base + Digit(u, Len(q))) \div q[Len(q)] < Base
    THEN (Digit(u, Len(q) + 1) * Base + Digit(u, Len(q))) \div q[Len(q)]
    ELSE Base - 1
QuoDigit(u, q) ==
    CHOOSE k \in (Estimate(u, q) - 2) .. Estimate(u, q) :
        /\ k >= 0
        /\ Cmp(Mul(q, k), u) <= 0
        /\ Cmp(u, Mul(q, k + 1)) < 0

\* The long division by q, from the leading digit of p down: quo and rem
\* are the quotient and the remainder of the digits above digit i.
RECURSIVE DivLoop(_, _, _, _, _)
DivLoop(p, q, i, quo, rem) ==
    IF i = 0 THEN [q |-> quo, r |-> rem]
    ELSE LET u == Trim(<<p[i]>> \o rem)
             k == QuoDigit(u, q)
         IN  DivLoop(p, q, i - 1, Trim(<<k>> \o quo), Sub(u, Mul(q, k)))

\* Quotient q and remainder r of p by a divisor d that is not zero, all
\* three scaled by the power of two that brings the leading digit of the
\* divisor to Base / 2 or above; den is that scaled divisor.
Norm(d) == BaseBits * Len(d) - BitLen(d)
DivMod(p, d) ==
    LET num == Shl(p, Norm(d))
        den == Shl(d, Norm(d))
        res == DivLoop(num, den, Len(num), <<>>, <<>>)
    IN  [q |-> res.q, r |-> res.r, den |-> den]

\* Round to nearest, ties to even, of the quotient dm.q with remainder
\* dm.r by the divisor dm.den.
RoundHalfEven(dm) ==
    IF \/ Cmp(Mul(dm.r, 2), dm.den) > 0
       \/ (Cmp(Mul(dm.r, 2), dm.den) = 0 /\ Low(dm.q) % 2 = 1)
    THEN Add(dm.q, <<1>>) ELSE dm.q

\* A float is m * 2^e with a mantissa m of 53 binary digits.
Mantissa == 53
Normal(m, e) ==
    IF BitLen(m) > Mantissa
    THEN [m |-> DivMod(m, <<2>>).q, e |-> e + 1]
    ELSE [m |-> m, e |-> e]

\* The float nearest to p * 2^s / q, where s has been chosen so that the
\* quotient has 53 digits.
RoundAt(p, q, s) ==
    Normal(RoundHalfEven(DivMod(Shl(p, s), Shl(q, -s))), -s)

\* The float nearest to p / q for naturals p and q that are not zero (the
\* true division of two ints, and the rounding of every float operation):
\* the quotient scaled by Scale has 52 or 53 digits.
Scale(p, q) == Mantissa - 1 + BitLen(q) - BitLen(p)
RoundDiv(p, q) ==
    IF Cmp(Shl(p, Scale(p, q)),
           Shl(Shl(q, -Scale(p, q)), Mantissa - 1)) < 0
    THEN RoundAt(p, q, Scale(p, q) + 1)
    ELSE RoundAt(p, q, Scale(p, q))

\* timedelta.total_seconds(): microseconds / 10**6, for a timedelta that
\* is not zero.
total_seconds(us) == RoundDiv(FromInt(us), FromInt(1000000))

\* x / y and x * 100 of floats that are not zero.
float_div(x, y) ==
    [m |-> RoundDiv(x.m, y.m).m, e |-> RoundDiv(x.m, y.m).e + x.e - y.e]
float_mul(x, n) ==
    [m |-> RoundDiv(Mul(x.m, n), <<1>>).m,
     e |-> RoundDiv(Mul(x.m, n), <<1>>).e + x.e]

\* "{:5.1f}".format(x): the decimal with one digit after the point that
\* is nearest to the float x, ties to even, as its number of tenths.
format_1f(x) ==
    IF x.e >= 0 THEN ToInt(Shl(Mul(x.m, 10), x.e))
    ELSE ToInt(RoundHalfEven(DivMod(Mul(x.m, 10), Shl(<<1>>, -x.e))))

\* The percentage of line 202 as print() shows it, in tenths of a percent:
\* time.total_seconds() / duration.total_seconds() * 100, computed and
\* formatted in floats.  t and d are microseconds, neither is zero.
float_percentage(t, d) ==
    format_1f(float_mul(float_div(total_seconds(t), total_seconds(d)), 100))

\* The exact quotient 1000 * tc / dc lies halfway between two tenths.
IsTie(tc, dc) == (2000 * tc) % (2 * dc) = dc

\* The same percentage.  The three float operations keep the value within
\* a relative error of 2^-50 of the exact quotient, so for whole
\* centiseconds the value shown is the tenth nearest to the exact quotient
\* unless that quotient is halfway between two tenths, where the digits
\* of the float decide.
percentage(t, d) ==
    IF t = 0 THEN 0
    ELSE IF /\ t % 10000 = 0
            /\ d % 10000 = 0
            /\ ~IsTie(t \div 10000, d \div 10000)
    THEN (2000 * (t \div 10000) + d \div 10000) \div (2 * (d \div 10000))
    ELSE float_percentage(t, d)

\* print_progress(duration, time), lines 198-206, for a duration that is
\* present and not zero: the percentage "{:5.1f}" in tenths of a percent,
\* and whether the line break of completion is printed.
print_progress(d, time) ==
    LET t == IF time = None THEN d ELSE time
    IN  [tenths |-> percentage(t[1], d[1]),
         newline |-> (t = d)]

\* --------------------------------------------------------------- state
VARIABLES
    entry,        \* "main": the script; "encode", "open_output_file": direct calls
    progress,     \* args.progress / progress_cb is not None
    encodeSection,\* the configuration has an [encode] section
    pattern,      \* the output pattern of the configuration
    existing,     \* names of the output files that exist
    dest,         \* the allocated output file (None before allocation)
    destOpen,     \* the output handle is open
    cacheDir,     \* the cache directory exists
    cacheFiles,   \* files under the cache directory
    pc,           \* position of the main thread
    stage,        \* "setup", "capture", "between", "encode"
    launched,     \* stages whose child has been launched with Popen
    exc,          \* the exception in flight
    handlers,     \* disposition of SIGINT and SIGTERM
    installed,    \* this run of the supervisor has installed both handlers
    interrupted,  \* the nonlocal flag of term_handler
    termReqs,     \* terminate requests sent to the running child, by signal
    child,        \* "none", "running", "zombie" (exited, not reaped), "reaped"
    childRc,      \* the exit status of the child once it has exited
    returncode,   \* proc.returncode
    pipe,         \* lines written to the diagnostic pipe and not yet read
    written,      \* number of lines the current child has written
    childLog,     \* every line the current child has written
    cap_duration, \* `duration` of ffmpeg_capture_duration
    result,       \* `result` of run_with_signal_forwarding
    duration,     \* `duration` of __main__
    cbCalls,      \* samples passed to the progress callback, in order
    printed,      \* what print_progress has written to the terminal
    alloc,        \* concurrent calls of open_output_file, by caller
    fs0,          \* names of the output files that existed at the start
    sigCount,     \* signals delivered so far
    sigAfterCache \* a signal was delivered after the cache directory was made

vars == <<entry, progress, encodeSection, pattern, existing, dest, destOpen,
          cacheDir, cacheFiles, pc, stage, launched, exc, handlers, installed,
          interrupted, termReqs, child, childRc, returncode, pipe, written,
          childLog, cap_duration, result, duration, cbCalls, printed,
          alloc, fs0, sigCount, sigAfterCache>>

INITIAL_FILE_NAME == "first.mkv"

NoExc == [type |-> "None", cmd |-> "", returncode |-> 0, origin |-> ""]
Exc(type, origin) == [type |-> type, cmd |-> "", returncode |-> 0, origin |-> origin]
CalledProcessError(rc, cmd) ==
    [type |-> "CalledProcessError", cmd |-> cmd, returncode |-> rc, origin |-> cmd]

\* Dispositions at interpreter start: Python installs default_int_handler
\* for SIGINT and leaves SIGTERM at SIG_DFL.
StartHandlers == [s \in Sigs |-> IF s = "SIGINT" THEN "default_int_handler" ELSE "SIG_DFL"]

Final == {"done", "raised", "killed"}

\* File systems the script may start in: the path of a pattern without
\* placeholder free or taken; no slot, some slots or all slots of a
\* numbered pattern taken.
StartFiles(p) ==
    IF p = "plain" THEN {{}, {PlainPath}}
    ELSE {{}, 0 .. 2, 0 .. (SlotCount - 1)}

InitMain ==
    /\ entry = "main"
    /\ progress \in BOOLEAN
    /\ encodeSection \in BOOLEAN
    /\ pattern \in Patterns
    /\ existing \in StartFiles(pattern)
    /\ dest = None
    /\ destOpen = FALSE
    /\ cacheDir = FALSE
    /\ cacheFiles = {}
    /\ pc = "get_cachedir"
    /\ stage = "setup"
    /\ duration = None

\* encode(source_file, output_file, config_section, progress_cb) called by
\* a caller that has made the source file and opened the output file; the
\* callback, when given, is print_progress bound to a duration.
InitEncode ==
    /\ entry = "encode"
    /\ progress \in BOOLEAN
    /\ encodeSection = TRUE
    /\ pattern = "plain"
    /\ existing = {PlainPath}
    /\ dest = Some(PlainPath)
    /\ destOpen = TRUE
    /\ cacheDir = TRUE
    /\ cacheFiles = {INITIAL_FILE_NAME}
    /\ pc = "popen"
    /\ stage = "encode"
    /\ duration \in {None, Some(0), Some(timedelta(0, 0, 2, 500000))}

\* The supervisor, the child and the environment before anything has run.
InitRun ==
    /\ launched = {}
    /\ exc = NoExc
    /\ handlers = StartHandlers
    /\ installed = FALSE
    /\ interrupted = FALSE
    /\ termReqs = [s \in Sigs |-> 0]
    /\ child = "none"
    /\ childRc = 0
    /\ returncode = None
    /\ pipe = <<>>
    /\ written = 0
    /\ childLog = <<>>
    /\ cap_duration = None
    /\ result = None
    /\ cbCalls = <<>>
    /\ printed = <<>>
    /\ sigCount = 0
    /\ sigAfterCache = FALSE

Init ==
    /\ InitMain \/ InitEncode
    /\ InitRun
    /\ alloc = <<>>
    /\ fs0 = existing

\* Where an exception raised inside record() or encode() lands: the
\* except clause of line 268 during capture, the exit of the with block
\* otherwise; the caller of a direct call gets it at once.
Unwind ==
    IF entry = "main"
    THEN IF stage = "capture" THEN "except_unlink" ELSE "with_exit"
    ELSE "raised"

\* The poll strategy run_with_signal_forwarding is given: record passes
\* ffmpeg_capture_duration, encode passes ffmpeg_progress bound to the
\* callback when there is one and nothing otherwise.
WaitFun ==
    IF stage = "capture" THEN "ffmpeg_capture_duration"
    ELSE IF progress THEN "ffmpeg_progress"
    ELSE "none"

\* The configuration, and the state of the concurrent allocation runs,
\* which no step of the pipeline changes.
cfgVars == <<entry, progress, encodeSection, pattern, alloc, fs0>>
fsVars == <<existing, dest, destOpen, cacheDir, cacheFiles>>
procVars == <<child, childRc, returncode, pipe, written, childLog>>
sigVars == <<handlers, installed, interrupted, termReqs>>
envVars == <<sigCount, sigAfterCache>>
locVars == <<cap_duration, result, duration, cbCalls, printed>>

\* ------------------------------------------------------------ __main__
\* line 255, get_cachedir: os.makedirs(cachedir)
GetCachedir ==
    /\ pc = "get_cachedir"
    /\ cacheDir' = TRUE
    /\ pc' = "open_output"
    /\ UNCHANGED <<cfgVars, existing, dest, destOpen, cacheFiles, stage, launched,
                   exc, procVars, sigVars, envVars, locVars>>

\* line 263, open_output_file creates the file and returns its handle;
\* the with block is not entered yet.
OpenOutputOk ==
    /\ pc = "open_output"
    /\ open_output_file(pattern, existing) # None
    /\ dest' = open_output_file(pattern, existing)
    /\ existing' = existing \cup {dest'[1]}
    /\ destOpen' = TRUE
    /\ pc' = "with_enter"
    /\ UNCHANGED <<cfgVars, cacheDir, cacheFiles, stage, launched, exc,
                   procVars, sigVars, envVars, locVars>>

\* lines 263-267: the with block and the try block are entered and record
\* is called.
WithEnter ==
    /\ pc = "with_enter"
    /\ stage' = "capture"
    /\ pc' = "popen"
    /\ UNCHANGED <<cfgVars, fsVars, launched, exc, procVars, sigVars,
                   envVars, locVars>>

\* line 263, open_output_file raises FileExistsError.
OpenOutputExists ==
    /\ pc = "open_output"
    /\ open_output_file(pattern, existing) = None
    /\ exc' = Exc("FileExistsError", "open_output_file")
    /\ pc' = "raised"
    /\ UNCHANGED <<cfgVars, fsVars, stage, launched, procVars, sigVars,
                   envVars, locVars>>

\* lines 148-151, record: the exit status is accepted and the duration
\* returned to line 267.
RecordReturn ==
    /\ pc = "record_check"
    /\ returncode[1] \in CaptureAccepted
    /\ duration' = result
    /\ stage' = "between"
    /\ pc' = "encode_args"
    /\ UNCHANGED <<cfgVars, fsVars, launched, exc, procVars, sigVars, envVars,
                   cap_duration, result, cbCalls, printed>>

\* lines 148-149, record raises CalledProcessError(returncode, ffmpeg_call).
RecordRaise ==
    /\ pc = "record_check"
    /\ returncode[1] \notin CaptureAccepted
    /\ exc' = CalledProcessError(returncode[1], "capture")
    /\ pc' = "except_unlink"
    /\ UNCHANGED <<cfgVars, fsVars, stage, launched, procVars, sigVars,
                   envVars, locVars>>

\* Mutant for C3: the except clause raises again without unlinking.
ExceptUnlink_KeepsFile ==
    /\ pc = "except_unlink"
    /\ pc' = "with_exit"
    /\ UNCHANGED <<cfgVars, fsVars, stage, launched, exc, procVars, sigVars,
                   envVars, locVars>>

\* lines 268-270: os.unlink(dest.name), then the exception is raised again.
ExceptUnlink ==
    /\ pc = "except_unlink"
    /\ existing' = existing \ {dest[1]}
    /\ pc' = "with_exit"
    /\ UNCHANGED <<cfgVars, dest, destOpen, cacheDir, cacheFiles, stage,
                   launched, exc, procVars, sigVars, envVars, locVars>>

\* lines 272-275, the arguments of encode: config["encode"] raises
\* KeyError when the configuration has no [encode] section.
EncodeArgsKeyError ==
    /\ pc = "encode_args"
    /\ ~encodeSection
    /\ exc' = Exc("KeyError", "between")
    /\ pc' = "with_exit"
    /\ UNCHANGED <<cfgVars, fsVars, stage, launched, procVars, sigVars,
                   envVars, locVars>>

\* line 274: functools.partial(None, duration) raises TypeError when
\* progress output is disabled (progress_cb is None).
EncodeArgsTypeError ==
    /\ pc = "encode_args"
    /\ encodeSection
    /\ ~progress
    /\ exc' = Exc("TypeError", "between")
    /\ pc' = "with_exit"
    /\ UNCHANGED <<cfgVars, fsVars, stage, launched, procVars, sigVars,
                   envVars, locVars>>

\* lines 272-275: encode is called with the callback bound to duration.
EncodeCall ==
    /\ pc = "encode_args"
    /\ encodeSection
    /\ progress
    /\ stage' = "encode"
    /\ pc' = "popen"
    /\ UNCHANGED <<cfgVars, fsVars, launched, exc, procVars, sigVars, envVars,
                   locVars>>

\* lines 193 and 195, encode returns.
EncodeReturn ==
    /\ pc = "encode_check"
    /\ returncode[1] \in EncodeAccepted
    /\ pc' = IF entry = "main" THEN "with_exit" ELSE "done"
    /\ UNCHANGED <<cfgVars, fsVars, stage, launched, exc, procVars, sigVars,
                   envVars, locVars>>

\* lines 193-194, encode raises CalledProcessError(returncode, ffmpeg_call).
EncodeRaise ==
    /\ pc = "encode_check"
    /\ returncode[1] \notin EncodeAccepted
    /\ exc' = CalledProcessError(returncode[1], "encode")
    /\ pc' = Unwind
    /\ UNCHANGED <<cfgVars, fsVars, stage, launched, procVars, sigVars,
                   envVars, locVars>>

\* line 265, the with block is left: the handle is closed, the file is
\* kept; an exception in flight goes on to the top level.
WithExit ==
    /\ pc = "with_exit"
    /\ destOpen' = FALSE
    /\ pc' = IF exc = NoExc THEN "rmtree" ELSE "raised"
    /\ UNCHANGED <<cfgVars, existing, dest, cacheDir, cacheFiles, stage,
                   launched, exc, procVars, sigVars, envVars, locVars>>

\* line 277, shutil.rmtree(cachedir): a file under the directory is
\* unlinked.
RmtreeUnlink ==
    /\ pc = "rmtree"
    /\ \E f \in cacheFiles : cacheFiles' = cacheFiles \ {f}
    /\ UNCHANGED <<cfgVars, existing, dest, destOpen, cacheDir, pc, stage,
                   launched, exc, procVars, sigVars, envVars, locVars>>

\* line 277, shutil.rmtree(cachedir): the emptied directory is removed.
RmtreeRmdir ==
    /\ pc = "rmtree"
    /\ cacheFiles = {}
    /\ cacheDir' = FALSE
    /\ pc' = "done"
    /\ UNCHANGED <<cfgVars, existing, dest, destOpen, cacheFiles, stage,
                   launched, exc, procVars, sigVars, envVars, locVars>>

\* ------------------------------------------ run_with_signal_forwarding
\* lines 106 and 112: interrupted = False; proc = subprocess.Popen(...).
\* The capture child creates the recording in the cache directory.
Popen ==
    /\ pc = "popen"
    /\ child' = "running"
    /\ childRc' = 0
    /\ returncode' = None
    /\ pipe' = <<>>
    /\ written' = 0
    /\ childLog' = <<>>
    /\ launched' = launched \cup {stage}
    /\ interrupted' = FALSE
    /\ installed' = FALSE
    /\ termReqs' = [s \in Sigs |-> 0]
    /\ cacheFiles' = IF stage = "capture"
                     THEN cacheFiles \cup {INITIAL_FILE_NAME} ELSE cacheFiles
    /\ pc' = "install_int"
    /\ UNCHANGED <<cfgVars, existing, dest, destOpen, cacheDir, stage, exc,
                   handlers, envVars, locVars>>

\* line 112: Popen raises OSError (the program cannot be executed).
PopenRaise ==
    /\ pc = "popen"
    /\ exc' = Exc("OSError", stage)
    /\ pc' = Unwind
    /\ UNCHANGED <<cfgVars, fsVars, stage, launched, procVars, sigVars,
                   envVars, locVars>>

\* line 113: signal.signal(signal.SIGINT, term_handler)
InstallInt ==
    /\ pc = "install_int"
    /\ handlers' = [handlers EXCEPT !["SIGINT"] = "term_handler"]
    /\ pc' = "install_term"
    /\ UNCHANGED <<cfgVars, fsVars, stage, launched, exc, procVars, installed,
                   interrupted, termReqs, envVars, locVars>>

\* lines 114-116: signal.signal(signal.SIGTERM, term_handler); the try
\* block is entered and the wait strategy chosen.
InstallTerm ==
    /\ pc = "install_term"
    /\ handlers' = [handlers EXCEPT !["SIGTERM"] = "term_handler"]
    /\ installed' = TRUE
    /\ pc' = CASE WaitFun = "none" -> "wait"
               [] WaitFun = "ffmpeg_capture_duration" -> "cap_init"
               [] OTHER -> "prog_zero"
    /\ UNCHANGED <<cfgVars, fsVars, stage, launched, exc, procVars,
                   interrupted, termReqs, envVars, locVars>>

\* lines 117-118: proc.wait() blocks until the child has exited, reaps it
\* unless the handler's poll already did; result = None.
Wait ==
    /\ pc = "wait"
    /\ child \in {"zombie", "reaped"}
    /\ returncode' = IF returncode = None THEN Some(childRc) ELSE returncode
    /\ child' = "reaped"
    /\ result' = None
    /\ pc' = "restore_int"
    /\ UNCHANGED <<cfgVars, fsVars, stage, launched, exc, childRc, pipe,
                   written, childLog, sigVars, envVars, cap_duration, duration,
                   cbCalls, printed>>

\* Mutant for C5: the handlers are restored after the try block instead of
\* in a finally clause, so an exception leaves them installed.
RestoreInt_OnlyOnReturn ==
    /\ pc = "restore_int"
    /\ IF exc # NoExc
       THEN /\ pc' = Unwind
            /\ UNCHANGED handlers
       ELSE /\ handlers' = [handlers EXCEPT !["SIGINT"] = "SIG_DFL"]
            /\ pc' = "restore_term"
    /\ UNCHANGED <<cfgVars, fsVars, stage, launched, exc, procVars, installed,
                   interrupted, termReqs, envVars, locVars>>

\* line 122: signal.signal(signal.SIGINT, signal.SIG_DFL)
RestoreInt ==
    /\ pc = "restore_int"
    /\ handlers' = [handlers EXCEPT !["SIGINT"] = "SIG_DFL"]
    /\ pc' = "restore_term"
    /\ UNCHANGED <<cfgVars, fsVars, stage, launched, exc, procVars, installed,
                   interrupted, termReqs, envVars, locVars>>

\* lines 123 and 125: signal.signal(signal.SIGTERM, signal.SIG_DFL); then
\* the exception in flight goes on, or (proc, result) is returned.
RestoreTerm ==
    /\ pc = "restore_term"
    /\ handlers' = [handlers EXCEPT !["SIGTERM"] = "SIG_DFL"]
    /\ pc' = IF exc # NoExc THEN Unwind
             ELSE IF stage = "capture" THEN "record_check" ELSE "encode_check"
    /\ UNCHANGED <<cfgVars, fsVars, stage, launched, exc, procVars, installed,
                   interrupted, termReqs, envVars, locVars>>

\* --------------------------------------------- ffmpeg_capture_duration
\* line 95: duration = None
CapInit ==
    /\ pc = "cap_init"
    /\ cap_duration' = None
    /\ pc' = "cap_test"
    /\ UNCHANGED <<cfgVars, fsVars, stage, launched, exc, procVars, sigVars,
                   envVars, result, duration, cbCalls, printed>>

\* lines 96 and 103: while proc.returncode is None; return duration, which
\* run_with_signal_forwarding stores in result (line 120).
CapTest ==
    /\ pc = "cap_test"
    /\ IF returncode = None
       THEN /\ pc' = "cap_read"
            /\ UNCHANGED result
       ELSE /\ result' = cap_duration
            /\ pc' = "restore_int"
    /\ UNCHANGED <<cfgVars, fsVars, stage, launched, exc, procVars, sigVars,
                   envVars, cap_duration, duration, cbCalls, printed>>

\* What proc.stderr.readline() returns: the oldest line of the pipe, or
\* the empty string at end of file; it blocks while the pipe is empty and
\* the child still holds the write end.
CanRead == pipe # <<>> \/ child # "running"
\* Mutant for C9: the newest line of the pipe is returned first.
ReadLine_Newest == IF pipe # <<>> THEN pipe[Len(pipe)] ELSE NoMatch
ReadLine == IF pipe # <<>> THEN Head(pipe) ELSE NoMatch
RestOfPipe == IF pipe # <<>> THEN Tail(pipe) ELSE pipe

\* lines 97-100: a line is read, decoded and parsed; a parsed time replaces
\* duration.  UnicodeDecodeError raised by decode() leaves
\* ffmpeg_capture_duration and reaches the finally clause of
\* run_with_signal_forwarding.
CapRead ==
    /\ pc = "cap_read"
    /\ CanRead
    /\ pipe' = RestOfPipe
    /\ IF decode_raises(ReadLine)
       THEN /\ exc' = Exc("UnicodeDecodeError", stage)
            /\ pc' = "restore_int"
            /\ UNCHANGED cap_duration
       ELSE /\ cap_duration' = IF extract_ffmpeg_time(ReadLine) # None
                               THEN extract_ffmpeg_time(ReadLine)
                               ELSE cap_duration
            /\ pc' = "cap_poll"
            /\ UNCHANGED exc
    /\ UNCHANGED <<cfgVars, fsVars, stage, launched, child, childRc,
                   returncode, written, childLog, sigVars, envVars, result,
                   duration, cbCalls, printed>>

\* proc.poll(): the exit status of a child that has exited is collected.
PollReturncode == IF child = "zombie" THEN Some(childRc) ELSE returncode
PollChild == IF child = "zombie" THEN "reaped" ELSE child

\* line 101: proc.poll()
CapPoll ==
    /\ pc = "cap_poll"
    /\ returncode' = PollReturncode
    /\ child' = PollChild
    /\ pc' = "cap_test"
    /\ UNCHANGED <<cfgVars, fsVars, stage, launched, exc, childRc, pipe,
                   written, childLog, sigVars, envVars, locVars>>

\* ------------------------------------------------------ ffmpeg_progress
\* progress_cb(sample): functools.partial(print_progress, duration) is
\* called; an exception it raises leaves ffmpeg_progress and reaches the
\* finally clause of run_with_signal_forwarding.
Callback(sample, next) ==
    /\ cbCalls' = Append(cbCalls, sample)
    /\ IF print_progress_raises(duration) # "None"
       THEN /\ exc' = Exc(print_progress_raises(duration), stage)
            /\ pc' = "restore_int"
            /\ UNCHANGED printed
       ELSE /\ pc' = next
            /\ printed' = Append(printed, print_progress(duration, sample))
            /\ UNCHANGED exc

\* The first sample, timedelta() (line 85).
InitialSample == Some(timedelta(0, 0, 0, 0))

\* line 85: progress_cb(timedelta())
ProgZero ==
    /\ pc = "prog_zero"
    /\ Callback(InitialSample, "prog_test")
    /\ UNCHANGED <<cfgVars, fsVars, stage, launched, procVars, sigVars,
                   envVars, cap_duration, result, duration>>

\* Mutant for C10: the loop runs until the pipe is empty instead of until
\* the exit status has been observed.
ProgTest_UntilPipeEmpty ==
    /\ pc = "prog_test"
    /\ pc' = IF pipe # <<>> THEN "prog_read" ELSE "prog_none"
    /\ UNCHANGED <<cfgVars, fsVars, stage, launched, exc, procVars, sigVars,
                   envVars, locVars>>

\* line 86: while proc.returncode is None
ProgTest ==
    /\ pc = "prog_test"
    /\ pc' = IF returncode = None THEN "prog_read" ELSE "prog_none"
    /\ UNCHANGED <<cfgVars, fsVars, stage, launched, exc, procVars, sigVars,
                   envVars, locVars>>

\* lines 87-89: a line is read, decoded and parsed; a parsed time is
\* passed on.  UnicodeDecodeError raised by decode() leaves ffmpeg_progress
\* and reaches the finally clause of run_with_signal_forwarding.
ProgRead ==
    /\ pc = "prog_read"
    /\ CanRead
    /\ pipe' = RestOfPipe
    /\ IF decode_raises(ReadLine)
       THEN /\ exc' = Exc("UnicodeDecodeError", stage)
            /\ pc' = "restore_int"
            /\ UNCHANGED <<cbCalls, printed>>
       ELSE IF extract_ffmpeg_time(ReadLine) # None
       THEN Callback(extract_ffmpeg_time(ReadLine), "prog_poll")
       ELSE /\ pc' = "prog_poll"
            /\ UNCHANGED <<exc, cbCalls, printed>>
    /\ UNCHANGED <<cfgVars, fsVars, stage, launched, child, childRc,
                   returncode, written, childLog, sigVars, envVars,
                   cap_duration, result, duration>>

\* line 90: proc.poll()
ProgPoll ==
    /\ pc = "prog_poll"
    /\ returncode' = PollReturncode
    /\ child' = PollChild
    /\ pc' = "prog_test"
    /\ UNCHANGED <<cfgVars, fsVars, stage, launched, exc, childRc, pipe,
                   written, childLog, sigVars, envVars, locVars>>

\* line 91: progress_cb(None); ffmpeg_progress returns None (line 120).
ProgNone ==
    /\ pc = "prog_none"
    /\ Callback(None, "restore_int")
    /\ result' = None
    /\ UNCHANGED <<cfgVars, fsVars, stage, launched, procVars, sigVars,
                   envVars, cap_duration, duration>>

\* ------------------------------------------------------------- signals
\* A signal reaches the pipeline process.
Deliver ==
    /\ pc \notin Final
    /\ sigCount < MaxSignals
    /\ sigCount' = sigCount + 1
    /\ sigAfterCache' = (sigAfterCache \/ cacheDir)

\* The disposition is SIG_DFL: the process is terminated at once, nothing
\* of the script runs any more.
SignalKill(sig) ==
    /\ Deliver
    /\ handlers[sig] = "SIG_DFL"
    /\ pc' = "killed"
    /\ UNCHANGED <<cfgVars, fsVars, stage, launched, exc, procVars, sigVars,
                   locVars>>

\* Where KeyboardInterrupt, raised at the current position, lands: inside
\* record or encode it unwinds as any exception does; inside the except
\* clause or at the end of the with block it replaces the exception in
\* flight and the with block is still left through the close of the
\* handle; before the with block is entered it leaves the script.
InterruptTarget ==
    CASE pc \in {"popen", "install_int"} -> Unwind
      [] pc \in {"except_unlink", "with_exit"} -> "with_exit"
      [] OTHER -> "raised"

\* SIGINT under Python's default_int_handler: KeyboardInterrupt is raised
\* in the main thread before its next statement.  A handle that
\* open_output_file has returned and the with statement has not taken is
\* dropped with the exception, which closes it; the file stays.
SignalKeyboardInterrupt ==
    /\ Deliver
    /\ handlers["SIGINT"] = "default_int_handler"
    /\ exc' = Exc("KeyboardInterrupt", IF pc \in {"popen", "install_int"}
                                        THEN stage ELSE pc)
    /\ pc' = InterruptTarget
    /\ destOpen' = IF pc = "with_enter" THEN FALSE ELSE destOpen
    /\ UNCHANGED <<cfgVars, existing, dest, cacheDir, cacheFiles, stage,
                   launched, procVars, sigVars, locVars>>

\* lines 107-110, term_handler: interrupted = True; proc.terminate().
\* Popen.send_signal polls first and signals only a child that has not
\* exited.
term_handler(sig) ==
    /\ interrupted' = TRUE
    /\ returncode' = IF returncode = None THEN PollReturncode ELSE returncode
    /\ child' = IF returncode = None THEN PollChild ELSE child
    /\ termReqs' = IF returncode = None /\ child = "running"
                   THEN [termReqs EXCEPT ![sig] = @ + 1] ELSE termReqs

\* A signal whose handler is term_handler.
SignalForward(sig) ==
    /\ Deliver
    /\ handlers[sig] = "term_handler"
    /\ term_handler(sig)
    /\ UNCHANGED <<cfgVars, fsVars, pc, stage, launched, exc, childRc, pipe,
                   written, childLog, handlers, installed, locVars>>

\* ----------------------------------------------------------- the child
\* The child writes a line to its diagnostic stream (a pipe unless encode
\* runs without callback, where it is discarded).
ChildWrite(line) ==
    /\ pc \notin Final
    /\ child = "running"
    /\ WaitFun # "none"
    /\ written < MaxLines
    /\ written' = written + 1
    /\ pipe' = Append(pipe, line)
    /\ childLog' = Append(childLog, line)
    /\ UNCHANGED <<cfgVars, fsVars, pc, stage, launched, exc, child, childRc,
                   returncode, sigVars, envVars, locVars>>

\* The child exits with status rc.
ChildExit(rc) ==
    /\ pc \notin Final
    /\ child = "running"
    /\ child' = "zombie"
    /\ childRc' = rc
    /\ UNCHANGED <<cfgVars, fsVars, pc, stage, launched, exc, returncode,
                   pipe, written, childLog, sigVars, envVars, locVars>>

\* ------------------------------------------------------- specification
Next ==
    \/ GetCachedir
    \/ OpenOutputOk
    \/ WithEnter
    \/ OpenOutputExists
    \/ RecordReturn
    \/ RecordRaise
    \/ ExceptUnlink
    \/ EncodeArgsKeyError
    \/ EncodeArgsTypeError
    \/ EncodeCall
    \/ EncodeReturn
    \/ EncodeRaise
    \/ WithExit
    \/ RmtreeUnlink
    \/ RmtreeRmdir
    \/ Popen
    \/ PopenRaise
    \/ InstallInt
    \/ InstallTerm
    \/ Wait
    \/ RestoreInt
    \/ RestoreTerm
    \/ CapInit
    \/ CapTest
    \/ CapRead
    \/ CapPoll
    \/ ProgZero
    \/ ProgTest
    \/ ProgRead
    \/ ProgPoll
    \/ ProgNone
    \/ \E sig \in Sigs : SignalKill(sig)
    \/ SignalKeyboardInterrupt
    \/ \E sig \in Sigs : SignalForward(sig)
    \/ \E line \in Lines : ChildWrite(line)
    \/ \E rc \in ExitCodes : ChildExit(rc)

Spec == Init /\ [][Next]_vars

\* ---------------------------------------------------------- type check
TypeOK ==
    /\ entry \in {"main", "encode", "open_output_file"}
    /\ pc \in {"get_cachedir", "open_output", "with_enter", "popen",
               "install_int", "install_term", "wait", "cap_init", "cap_test", "cap_read",
               "cap_poll", "prog_zero", "prog_test", "prog_read", "prog_poll",
               "prog_none", "restore_int", "restore_term", "record_check",
               "except_unlink", "encode_args", "encode_check", "with_exit",
               "rmtree"} \cup Final
    /\ stage \in {"setup", "capture", "between", "encode"}
    /\ child \in {"none", "running", "zombie", "reaped"}
    /\ handlers \in [Sigs -> {"default_int_handler", "SIG_DFL", "term_handler"}]
    /\ handlers["SIGINT"] = "default_int_handler" =>
           pc \in {"get_cachedir", "open_output", "with_enter", "popen",
                   "install_int", "except_unlink", "with_exit", "raised",
                   "killed"}
    /\ pc \in {"record_check", "encode_check"} => returncode # None
    /\ (returncode = None) = (child \in {"none", "running", "zombie"})

\* ============================================================== claims
\* Positions of __main__ after record() or encode() has been left.
AfterSupervisor == {"record_check", "encode_check", "except_unlink",
                    "encode_args", "with_exit", "rmtree", "done", "raised"}

AllDefault == \A s \in Sigs : handlers[s] = "SIG_DFL"

DestExists == dest # None /\ dest[1] \in existing

IsPresent(x) == x # None
PresentSamples(samples) == SelectSeq(samples, IsPresent)
\* The times of the lines of a log that can be decoded and parsed.
IsText(line) == ~decode_raises(line)
TextLines(log) == SelectSeq(log, IsText)
ParsedTimes(log) ==
    PresentSamples([i \in 1 .. Len(TextLines(log)) |->
                        extract_ffmpeg_time(TextLines(log)[i])])
NonDecreasing(ts) == \A i \in 1 .. (Len(ts) - 1) : ts[i][1] <= ts[i + 1][1]
IsPrefix(a, b) == Len(a) <= Len(b) /\ a = SubSeq(b, 1, Len(a))

\* C1: once the cache directory has been created, every conclusion of
\* the pipeline (success, capture failure, encode failure, an exception
\* between the stages) leaves the cache directory and its content removed.
C1_CacheRemovedOnEveryConclusion ==
    (entry = "main" /\ stage # "setup" /\ pc \in {"done", "raised"})
        => (~cacheDir /\ cacheFiles = {})

\* C2: when the encode stage fails (nonzero exit status, or any other
\* exception after capture returned), the allocated output file no longer
\* exists once the pipeline has finished.
C2_OutputRemovedWhenEncodeFails ==
    (entry = "main" /\ stage \in {"between", "encode"} /\ pc = "raised")
        => ~DestExists

\* C3: when the capture stage fails (abnormal exit status or an exception
\* raised out of record), the output file is deleted before that error
\* leaves the with block, and no encode child is ever launched.
C3_CaptureFailureUnlinks ==
    (entry = "main" /\ exc.origin = "capture")
        => /\ stage = "capture"
           /\ "encode" \notin launched
           /\ pc \in {"restore_int", "restore_term", "except_unlink",
                      "with_exit", "raised", "killed"}
           /\ pc \in {"with_exit", "raised"} => ~DestExists

\* C3 witness: record raised CalledProcessError, the error has reached the
\* top level and the allocated file is gone.
C3_Witness ==
    /\ entry = "main" /\ pc = "raised"
    /\ exc.type = "CalledProcessError" /\ exc.cmd = "capture"
    /\ dest # None /\ dest[1] \notin existing

\* C4: a SIGINT or SIGTERM delivered at any point after the cache
\* directory was created still lets the pipeline conclude with the cache
\* directory removed and no partial output file left.
C4_SignalCleanup ==
    (entry = "main" /\ sigAfterCache /\ pc \in Final)
        => (~cacheDir /\ (DestExists => pc = "done"))

\* C5: once run_with_signal_forwarding has installed its handlers, on
\* every way out of it (plain wait, the poll strategy returning, the poll
\* strategy raising) both handlers are SIG_DFL when the caller goes on.
C5_HandlersRestored ==
    (installed /\ pc \in AfterSupervisor) => AllDefault

\* C5 witness: the poll strategy raised (the callback failed), the error
\* reached the caller of encode and both handlers are SIG_DFL.
C5_Witness ==
    /\ installed /\ pc = "raised"
    /\ exc.type \in {"AttributeError", "ZeroDivisionError"}
    /\ AllDefault

\* C6: in one supervised run the child gets at most one terminate request
\* per signal type, however often that signal is delivered.
C6_TerminateOncePerSignal ==
    \A s \in Sigs : termReqs[s] <= 1

\* C7: record returns the last known duration exactly when the child's
\* exit status is 0 or 255; for every other status it raises
\* CalledProcessError with the exit status and the capture command, and
\* no duration is returned.
C7_CaptureExitPolicy ==
    [][(pc = "record_check" /\ pc' \notin {"record_check", "killed"}) =>
          IF returncode[1] \in {0, 255}
          THEN /\ pc' = "encode_args"
               /\ exc' = NoExc
               /\ duration' = cap_duration
          ELSE /\ pc' = "except_unlink"
               /\ exc'.type = "CalledProcessError"
               /\ exc'.cmd = "capture"
               /\ exc'.returncode = returncode[1]
               /\ duration' = None]_vars

\* C7 witness: the capture child ended with 255 after a forwarded signal
\* and record returned the duration parsed last.
C7_Witness ==
    /\ pc = "encode_args"
    /\ returncode = Some(255)
    /\ interrupted
    /\ duration = Some(timedelta(0, 0, 2, 500000))

\* C8: encode returns only when the child's exit status is 0; every other
\* status, 255 after a forwarded signal included, raises
\* CalledProcessError with the exit status and the transcode command.
C8_EncodeExitPolicy ==
    [][(pc = "encode_check" /\ pc' \notin {"encode_check", "killed"}) =>
          IF returncode[1] = 0
          THEN /\ exc' = NoExc
               /\ pc' \in {"with_exit", "done"}
          ELSE /\ exc'.type = "CalledProcessError"
               /\ exc'.cmd = "encode"
               /\ exc'.returncode = returncode[1]
               /\ pc' \in {"with_exit", "raised"}]_vars

\* C8 witness: the transcode child ended with 255 after a forwarded
\* signal and encode raised.
C8_Witness ==
    /\ pc \in {"with_exit", "raised"}
    /\ exc.type = "CalledProcessError" /\ exc.cmd = "encode"
    /\ exc.returncode = 255
    /\ interrupted

\* C9 as stated: the elapsed values passed to the callback are in
\* non-decreasing order, whatever lines the child prints.
C9_ProgressNonDecreasing ==
    NonDecreasing(PresentSamples(cbCalls))

\* C9 as amended: the elapsed values passed to the callback are the zero
\* sample followed by the times parsed from the child's lines, in the
\* order the child printed them; they are non-decreasing whenever the
\* times the child printed are.
C9_ProgressFollowsChild ==
    cbCalls # <<>> =>
        /\ IsPrefix(PresentSamples(cbCalls),
                    <<Some(0)>> \o ParsedTimes(childLog))
        /\ NonDecreasing(ParsedTimes(childLog))
               => NonDecreasing(PresentSamples(cbCalls))

\* C9 witness: the callback has received zero and two increasing times.
C9_Witness ==
    /\ Len(PresentSamples(cbCalls)) = 3
    /\ cbCalls[1][1] < cbCalls[2][1]
    /\ cbCalls[2][1] < cbCalls[3][1]

\* The poll loop of ffmpeg_progress has ended and control is past line 91.
ProgressLoopEnded ==
    /\ stage = "encode" /\ progress /\ installed
    /\ pc \in {"restore_int", "restore_term"} \cup AfterSupervisor
    /\ exc.type \notin {"AttributeError", "ZeroDivisionError",
                        "UnicodeDecodeError", "KeyboardInterrupt", "OSError"}

\* C10: in an encode run with a callback, the first call is the zero
\* sample; None is passed only as the last call and only once the exit
\* status has been observed; when the poll loop has ended, None has been
\* passed exactly once.
C10_ProgressFraming ==
    /\ cbCalls # <<>> => cbCalls[1] = Some(0)
    /\ \A i \in 1 .. Len(cbCalls) :
           cbCalls[i] = None => (i = Len(cbCalls) /\ i > 1 /\ returncode # None)
    /\ ProgressLoopEnded =>
           (Len(cbCalls) >= 2 /\ cbCalls[Len(cbCalls)] = None)

\* C10 witness: the loop has ended after the callback got zero, a parsed
\* time and None.
C10_Witness ==
    /\ ProgressLoopEnded
    /\ Len(cbCalls) = 3
    /\ cbCalls[2] # None
    /\ cbCalls[3] = None

\* The last element of a sequence of present values, None when empty.
LastOrNone(ts) == IF ts = <<>> THEN None ELSE ts[Len(ts)]

\* C11: in a pipeline run every present elapsed value passed to the
\* callback is at most the duration capture returned, and the line break
\* of completion is printed at most once.
C11_ElapsedWithinDuration ==
    (entry = "main" /\ duration # None) =>
        /\ \A i \in 1 .. Len(cbCalls) :
               cbCalls[i] # None => cbCalls[i][1] <= duration[1]
        /\ Cardinality({i \in 1 .. Len(printed) : printed[i].newline}) <= 1

\* C12: when the transcode child has written its lines and exited with
\* status 0 and the poll loop has ended, the callback has received zero,
\* every time the child wrote, in order, and None (stated for the runs
\* in which no signal is delivered).
C12_ProgressSequenceComplete ==
    (ProgressLoopEnded /\ returncode = Some(0) /\ exc = NoExc
        /\ sigCount = 0) =>
        cbCalls = <<Some(0)>> \o ParsedTimes(childLog) \o <<None>>

\* C13: when record returns, the duration is the last time the capture
\* child wrote to its diagnostic stream before it exited (stated for the
\* runs in which no signal is delivered).
C13_DurationIsLastWritten ==
    (entry = "main" /\ pc = "encode_args" /\ sigCount = 0) =>
        duration = LastOrNone(ParsedTimes(childLog))

\* C16: when the allocation fails because every numbered slot is taken,
\* no cache directory exists.
C16_NoCacheDirOnNoFreeSlot ==
    (entry = "main" /\ pattern = "numbered" /\ exc.type = "FileExistsError")
        => ~cacheDir

\* C17: with progress output disabled, a pipeline whose capture succeeded
\* launches the transcode child, and no progress callback is ever called
\* (stated for the runs in which no signal is delivered).
C17_NoProgressStillEncodes ==
    (entry = "main" /\ ~progress /\ encodeSection /\ sigCount = 0
        /\ stage \in {"between", "encode"} /\ pc \in {"done", "raised"})
        => ("encode" \in launched /\ cbCalls = <<>>)

\* C18: whenever a launched child has not yet exited, the forwarding
\* handler is installed for SIGINT and for SIGTERM.
C18_HandlersWhileChildRuns ==
    (child = "running" /\ pc \notin Final) =>
        \A s \in Sigs : handlers[s] = "term_handler"

\* C19: whenever control has left run_with_signal_forwarding, by return
\* or by an exception out of the poll strategy, the child has exited.
C19_ChildExitedOnLeave ==
    (installed /\ pc \in AfterSupervisor) => child \in {"zombie", "reaped"}

\* C20: whenever the pipeline calls the progress renderer, the duration
\* bound to it is present and greater than zero (stated for the runs in
\* which no signal is delivered).
C20_RendererTotalPositive ==
    (entry = "main" /\ cbCalls # <<>> /\ sigCount = 0) =>
        (duration # None /\ duration[1] > 0)

\* ====================================== open_output_file, step by step
\* Several callers run open_output_file on the same pattern at once; each
\* open(..., "xb") is one step.  alloc[p].i is the loop index of caller p,
\* alloc[p].file the name of the handle it got.
Allocators == 1 .. MaxAllocators

\* File systems the calls may start in: small ones for concurrent
\* callers, the full and the nearly full one for a single caller.
AllocStarts ==
    {<<"plain", fs, n>> : fs \in {{}, {PlainPath}}, n \in Allocators}
    \cup {<<"numbered", fs, n>> :
              fs \in {{}, {1}, {0, 2}, 0 .. 2}, n \in Allocators}
    \cup {<<"numbered", fs, 1>> :
              fs \in {0 .. (SlotCount - 2), 0 .. (SlotCount - 1)}}

InitAlloc ==
    /\ entry = "open_output_file"
    /\ progress = FALSE
    /\ encodeSection = FALSE
    /\ \E st \in AllocStarts :
           /\ pattern = st[1]
           /\ existing = st[2]
           /\ alloc = [p \in 1 .. st[3] |->
                          [pc |-> "call", i |-> 0, file |-> None]]
    /\ fs0 = existing
    /\ dest = None
    /\ destOpen = FALSE
    /\ cacheDir = FALSE
    /\ cacheFiles = {}
    /\ pc = "open_output_file"
    /\ stage = "setup"
    /\ duration = None
    /\ InitRun

allocFrame == <<entry, progress, encodeSection, pattern, fs0, dest, destOpen,
                cacheDir, cacheFiles, pc, stage, launched, exc, procVars,
                sigVars, envVars, locVars>>

\* lines 155-156: no placeholder, open(pattern, "xb") creates the file.
AllocPlainOk(p) ==
    /\ alloc[p].pc = "call"
    /\ pattern = "plain"
    /\ open_xb(PlainPath, existing)
    /\ existing' = existing \cup {PlainPath}
    /\ alloc' = [alloc EXCEPT ![p].pc = "returned", ![p].file = Some(PlainPath)]
    /\ UNCHANGED allocFrame

\* lines 155-156: no placeholder, open(pattern, "xb") raises
\* FileExistsError.
AllocPlainExists(p) ==
    /\ alloc[p].pc = "call"
    /\ pattern = "plain"
    /\ ~open_xb(PlainPath, existing)
    /\ alloc' = [alloc EXCEPT ![p].pc = "raised"]
    /\ UNCHANGED <<existing, allocFrame>>

\* lines 158-160: open(pattern.format(i), "xb") creates the file, which is
\* returned.
AllocTryOk(p) ==
    /\ alloc[p].pc = "call"
    /\ pattern = "numbered"
    /\ alloc[p].i < SlotCount
    /\ open_xb(format(pattern, alloc[p].i), existing)
    /\ existing' = existing \cup {format(pattern, alloc[p].i)}
    /\ alloc' = [alloc EXCEPT ![p].pc = "returned",
                              ![p].file = Some(format(pattern, alloc[p].i))]
    /\ UNCHANGED allocFrame

\* lines 158-162: open raises FileExistsError, the loop continues.
AllocTryExists(p) ==
    /\ alloc[p].pc = "call"
    /\ pattern = "numbered"
    /\ alloc[p].i < SlotCount
    /\ ~open_xb(format(pattern, alloc[p].i), existing)
    /\ alloc' = [alloc EXCEPT ![p].i = @ + 1]
    /\ UNCHANGED <<existing, allocFrame>>

\* line 163: the loop is exhausted, FileExistsError(pattern) is raised.
AllocNoFreeSlot(p) ==
    /\ alloc[p].pc = "call"
    /\ pattern = "numbered"
    /\ alloc[p].i = SlotCount
    /\ alloc' = [alloc EXCEPT ![p].pc = "raised"]
    /\ UNCHANGED <<existing, allocFrame>>

NextAlloc ==
    \/ \E p \in DOMAIN alloc : AllocPlainOk(p)
    \/ \E p \in DOMAIN alloc : AllocPlainExists(p)
    \/ \E p \in DOMAIN alloc : AllocTryOk(p)
    \/ \E p \in DOMAIN alloc : AllocTryExists(p)
    \/ \E p \in DOMAIN alloc : AllocNoFreeSlot(p)

SpecAlloc == InitAlloc /\ [][NextAlloc]_vars

\* Caller p gets its handle in this step.
Returns(p) == alloc[p].pc = "call" /\ alloc'[p].pc = "returned"
\* Caller p fails in this step.
Raises(p) == alloc[p].pc = "call" /\ alloc'[p].pc = "raised"

\* C14: a handle is never obtained on a file that existed before the call
\* or at the moment of the open, no existing file is touched, and no two
\* concurrent callers obtain the same file.
C14_AllocationExclusive ==
    /\ [](/\ \A p \in DOMAIN alloc :
               alloc[p].file # None => alloc[p].file[1] \notin fs0
          /\ \A p, q \in DOMAIN alloc :
               (p # q /\ alloc[p].file # None) => alloc[p].file # alloc[q].file
          /\ fs0 \subseteq existing)
    /\ [][\A p \in DOMAIN alloc :
              Returns(p) => /\ alloc'[p].file[1] \notin existing
                            /\ existing' = existing \cup {alloc'[p].file[1]}]_vars

\* C14 witness: two concurrent callers have both returned, with different
\* files, in a directory that already held files.
C14_Witness ==
    /\ DOMAIN alloc = {1, 2}
    /\ fs0 = {0, 2}
    /\ alloc[1].file = Some(3)
    /\ alloc[2].file = Some(1)

\* C15: with a placeholder, the call creates and returns the file of the
\* smallest index in 0..999 whose name does not exist, and creates no
\* other file; it fails, creating nothing, only when all 1000 exist.
C15_FirstFreeSlot ==
    [][pattern = "numbered" =>
          /\ \A p \in DOMAIN alloc :
                /\ Returns(p) =>
                      /\ alloc'[p].file[1] \in 0 .. 999
                      /\ alloc'[p].file[1] \notin existing
                      /\ \A j \in 0 .. (alloc'[p].file[1] - 1) : j \in existing
                      /\ existing' = existing \cup {alloc'[p].file[1]}
                /\ Raises(p) =>
                      /\ \A j \in 0 .. 999 : j \in existing
                      /\ existing' = existing
          /\ existing' # existing => \E p \in DOMAIN alloc : Returns(p)]_vars

\* C15 witness: with out-0 .. out-2 existing the call has returned the
\* file of index 3, the only file created.
C15_Witness ==
    /\ pattern = "numbered"
    /\ fs0 = 0 .. 2
    /\ DOMAIN alloc = {1}
    /\ alloc[1].file = Some(3)
    /\ existing = 0 .. 3

====
